---- MODULE Spec2Model ----
(***************************************************************************)
(* Kimera-RPGO RobustSolver (src/src/RobustSolver.cpp) as a state machine. *)
(*                                                                         *)
(* State: the solver's members (outlier_removal_, solver_type_, log_,      *)
(* log_path_, nfg_, values_), the two log files, the process status, and   *)
(* a record `last` of what the most recent public call did.                *)
(*                                                                         *)
(* RobustSolver.cpp is the only translation unit at hand.  The base class  *)
(* GenericSolver (addAndCheckIfOptimize, removeLastFactor) and the outlier *)
(* rejection strategy (Pcm: removeOutliers, removeLastLoopClosure,         *)
(* ignore/reviveLoopClosureWithPrefix, getIgnoredPrefixes,                 *)
(* getRejectionStats) are modelled from the design document; the gtsam     *)
(* optimizer is abstracted to "the estimate of every variable is fitted    *)
(* against the factor set the optimizer was given".                        *)
(***************************************************************************)
EXTENDS Integers, Sequences, FiniteSets, TLC

\* ------------------------------------------------------------------ bounds
MaxOps == 4       \* public calls per behaviour
MaxUpdates == 3   \* update and forceUpdate calls among them
MaxIdx == 1       \* highest pose index of a robot
MaxFirstCalls == 2  \* calls followed from each of the constructor's methods

Robots == {"a", "b"}
Landmark == <<"l", 0>>

OutlierRemovalMethods ==
  {"NONE", "PCM2D", "PCM3D", "PCM_Simple2D", "PCM_Simple3D", "UNDEFINED"}
Solvers == {"LM", "GN", "OTHER"}

VARIABLES
  params,            \* RobustSolverParams handed to the constructor
  status,            \* "running" | "exited" (exit(EXIT_FAILURE)) | "crashed"
  outlier_removal_,  \* the strategy object; kind "nullptr" when absent
  solver_type_,      \* GenericSolver::solver_type_
  log_,              \* RobustSolver::log_
  log_path_,         \* RobustSolver::log_path_
  nfg_,              \* GenericSolver::nfg_   : sequence of factors
  values_,           \* GenericSolver::values_: key -> estimate
  log_txt,           \* lines of <log_path_>/log.txt
  error_txt,         \* lines of <log_path_>/error.txt
  last,              \* what the most recent public call did
  hist               \* number of calls made, what update() was handed, the
                     \* output of the latest optimize(), the logged calls

vars == <<params, status, outlier_removal_, solver_type_, log_, log_path_, nfg_,
          values_, log_txt, error_txt, last, hist>>

\* ----------------------------------------------------------------- helpers
Range(s) == {s[i] : i \in 1..Len(s)}

PoseKeys == {<<r, i>> : r \in Robots, i \in 0..MaxIdx}

Prior(k) == [kind |-> "prior", k1 |-> k, k2 |-> k]
Odom(k, n) == [kind |-> "odom", k1 |-> k, k2 |-> n]
LoopClosure(x, y) == [kind |-> "lc", k1 |-> x, k2 |-> y]
LandmarkFactor(x) == [kind |-> "landmark", k1 |-> x, k2 |-> Landmark]

FactorKeys(f) == {f.k1, f.k2}
GraphKeys(nfg) == UNION {FactorKeys(f) : f \in Range(nfg)}
\* ObservationId(prefix_1, prefix_2): an unordered pair of prefixes
ObservationId(p1, p2) == {p1, p2}
Scope(f) == ObservationId(f.k1[1], f.k2[1])
Streams == {ObservationId(p, q) : p \in Robots, q \in Robots}

Seed == [opt |-> FALSE, fit |-> {}]
Keys(values) == DOMAIN values
Insert(values, ks) == [k \in Keys(values) \cup ks |->
                         IF k \in Keys(values) THEN values[k] ELSE Seed]

\* the largest index of I, 0 when I is empty
Largest(I) == IF I = {} THEN 0 ELSE CHOOSE i \in I : \A j \in I : j <= i
RemoveAt(s, i) == SubSeq(s, 1, i - 1) \o SubSeq(s, i + 1, Len(s))

RECURSIVE Pick(_, _, _)
\* the elements of s at the indices I, from index i on, in order
Pick(s, I, i) ==
  IF i > Len(s) THEN <<>>
  ELSE (IF i \in I THEN <<s[i]>> ELSE <<>>) \o Pick(s, I, i + 1)

\* --------------------------------------------------- optimizer backend
\* gtsam::LevenbergMarquardtOptimizer / GaussNewtonOptimizer (nfg_, values_)
\* .optimize(): every variable's estimate is the one fitted to the factors
\* given; the variables are those of the initial values.
BackendOptimize(nfg, values) ==
  [k \in Keys(values) |-> [opt |-> TRUE, fit |-> Range(nfg)]]

\* nfg_.error(values_): the factors the current estimates were not fitted to
GraphError(nfg, values) ==
  Cardinality({i \in 1..Len(nfg) :
     \E k \in FactorKeys(nfg[i]) :
        \/ k \notin Keys(values)
        \/ ~values[k].opt
        \/ nfg[i] \notin values[k].fit})

\* ------------------------------------------------ GenericSolver (base)
\* addAndCheckIfOptimize: every factor and value is admitted; optimization
\* is asked for unless the batch is empty or is one odometry factor with its
\* one new pose.
AddAndCheckIfOptimize(factors, vals, nfg, values) ==
  [nfg    |-> nfg \o factors,
   values |-> Insert(values, vals),
   strat  |-> outlier_removal_,
   ret    |-> ~ \/ (Len(factors) = 0 /\ vals = {})
                \/ (Len(factors) = 1 /\ factors[1].kind = "odom"
                    /\ Cardinality(vals) = 1)]

\* removeLastFactor: detaches the most recently appended factor, whatever
\* its kind, and hands it back; nothing to hand back on an empty graph.
RemoveLastFactor(nfg) ==
  IF Len(nfg) = 0 THEN [nfg |-> nfg, removed |-> <<>>]
  ELSE [nfg |-> SubSeq(nfg, 1, Len(nfg) - 1), removed |-> <<nfg[Len(nfg)]>>]

\* ------------------------------------------ outlier rejection strategy
NullStrategy ==
  [kind |-> "nullptr", accepted |-> <<>>, ignored |-> {},
   lc |-> 0, good_lc |-> 0, consistency_error |-> <<>>]
NewStrategy(kind) == [NullStrategy EXCEPT !.kind = kind]

IsCandidate(f) == f.kind \in {"lc", "landmark"}
Enabled(f, ignored) == f.kind # "lc" \/ Scope(f) \cap ignored = {}

\* removeOutliers(new factors, new values, &nfg_, &values_): priors and
\* odometry are always admitted, each loop closure or landmark measurement
\* is admitted or rejected (accept: the indices admitted); admitted factors
\* and the values they refer to are appended, an admitted loop closure of an
\* ignored prefix is recorded but stays out of the graph; ret is the
\* strategy's "optimize now".
RemoveOutliers(strat, factors, vals, nfg, values, accept, ret) ==
  LET adm    == {i \in 1..Len(factors) : ~IsCandidate(factors[i]) \/ i \in accept}
      lcs    == {i \in 1..Len(factors) : factors[i].kind = "lc"}
      toNfg  == {i \in adm : Enabled(factors[i], strat.ignored)}
      admKeys == UNION {FactorKeys(factors[i]) : i \in adm}
  IN [nfg    |-> nfg \o Pick(factors, toNfg, 1),
      values |-> Insert(values, vals \cap admKeys),
      strat  |-> [strat EXCEPT
                    !.accepted = @ \o Pick(factors, adm \cap lcs, 1),
                    !.lc = @ + Cardinality(lcs),
                    !.good_lc = @ + Cardinality(adm \cap lcs),
                    !.consistency_error =
                       [i \in 1..Len(Pick(factors, lcs, 1)) |->
                          IF Pick(factors, lcs, 1)[i] \in
                               Range(Pick(factors, adm \cap lcs, 1))
                          THEN 0 ELSE 1]],
      ret    |-> ret]

\* removeLastLoopClosure(&nfg_) / removeLastLoopClosure(id, &nfg_): the most
\* recently accepted loop closure (of the stream id, when scoped) leaves the
\* strategy's record and the graph and is returned; empty when there is none.
StrategyRemoveLast(strat, nfg, streams) ==
  LET i == Largest({n \in 1..Len(strat.accepted) :
                      Scope(strat.accepted[n]) \in streams})
  IN IF i = 0 THEN [strat |-> strat, nfg |-> nfg, removed |-> <<>>]
     ELSE LET f == strat.accepted[i]
              j == Largest({n \in 1..Len(nfg) : nfg[n] = f})
          IN [strat   |-> [strat EXCEPT !.accepted = RemoveAt(@, i)],
              nfg     |-> IF j = 0 THEN nfg ELSE RemoveAt(nfg, j),
              removed |-> <<f>>]

\* ignoreLoopClosureWithPrefix(prefix, &nfg_): the loop closures whose stream
\* includes the prefix leave the graph; the strategy remembers the prefix.
IgnoreLoopClosureWithPrefix(strat, nfg, prefix) ==
  LET Keep(f) == ~(f.kind = "lc" /\ prefix \in Scope(f))
  IN [strat |-> [strat EXCEPT !.ignored = @ \cup {prefix}],
      nfg   |-> SelectSeq(nfg, Keep)]

\* reviveLoopClosureWithPrefix(prefix, &nfg_): the prefix is forgotten and
\* the recorded loop closures it alone kept out come back to the graph.
ReviveLoopClosureWithPrefix(strat, nfg, prefix) ==
  LET Back(f) == /\ prefix \in strat.ignored
                 /\ prefix \in Scope(f)
                 /\ Scope(f) \cap (strat.ignored \ {prefix}) = {}
  IN [strat |-> [strat EXCEPT !.ignored = @ \ {prefix}],
      nfg   |-> nfg \o SelectSeq(strat.accepted, Back)]

\* getRejectionStats()
GetRejectionStats(strat) ==
  [lc |-> strat.lc, good_lc |-> strat.good_lc,
   consistency_error |-> strat.consistency_error]

\* ------------------------------------------------------- RobustSolver
HasStrategy == outlier_removal_.kind # "nullptr"

\* faulty variant: the default arm warns and goes on without a strategy
ConstructWithoutExit(method, solver) ==
  [status |-> "running",
   outlier_removal_ |-> IF method \in {"NONE", "UNDEFINED"} THEN NullStrategy
                        ELSE NewStrategy("Pcm"),
   solver_type_ |-> solver,
   log_ |-> FALSE]

\* RobustSolver::RobustSolver: the strategy the method selects (the four Pcm
\* instantiations differ in pose type and thresholds only, which the model
\* does not carry); an unrecognised method ends the process.
Construct(method, solver) ==
  [status |-> IF method = "UNDEFINED" THEN "exited" ELSE "running",
   outlier_removal_ |-> IF method \in {"NONE", "UNDEFINED"} THEN NullStrategy
                        ELSE NewStrategy("Pcm"),
   solver_type_ |-> solver,
   log_ |-> FALSE]

\* faulty variant: an unsupported solver is reported and optimize() returns
OptimizeReturnsUnsupported(nfg, values) ==
  IF solver_type_ \in {"LM", "GN"}
  THEN [values |-> BackendOptimize(nfg, values), exited |-> FALSE]
  ELSE [values |-> values, exited |-> FALSE]

\* faulty variant: the backend's result is not assigned to values_
OptimizeKeepsValues(nfg, values) ==
  IF solver_type_ \in {"LM", "GN"}
  THEN [values |-> values, exited |-> FALSE]
  ELSE [values |-> values, exited |-> TRUE]

\* RobustSolver::optimize
Optimize(nfg, values) ==
  IF solver_type_ = "LM" THEN
    [values |-> BackendOptimize(nfg, values), exited |-> FALSE]
  ELSE IF solver_type_ = "GN" THEN
    [values |-> BackendOptimize(nfg, values), exited |-> FALSE]
  ELSE [values |-> values, exited |-> TRUE]

NoCall ==
  [op |-> "none", factors |-> <<>>, vals |-> {}, accept |-> {},
   do_optimize |-> FALSE, optCalls |-> 0, removed |-> <<>>, warned |-> FALSE,
   derefNull |-> FALSE, ret |-> {}, prefixes |-> <<>>, strategySaved |-> FALSE,
   wroteG2o |-> FALSE, logged |-> FALSE, roundTrip |-> FALSE,
   before |-> [nfg |-> <<>>, values |-> <<>>, ignored |-> {}]]

\* the graph state a call started from
Snapshot == [nfg |-> nfg_, values |-> values_,
             ignored |-> outlier_removal_.ignored]

Header == [kind |-> "header", lc |-> 0, good_lc |-> 0, error |-> 0,
           consistency_error |-> <<>>]
Stale == [Header EXCEPT !.kind = "stale"]
StatsLine(stats, error) ==
  [kind |-> "data", lc |-> stats.lc, good_lc |-> stats.good_lc,
   error |-> error, consistency_error |-> <<>>]
ErrorLine(stats) ==
  [kind |-> "data", lc |-> 0, good_lc |-> 0, error |-> 0,
   consistency_error |-> stats.consistency_error]
\* what a read through the null strategy pointer may yield
GarbageStats == {[lc |-> -1, good_lc |-> -1, consistency_error |-> <<>>]}

\* a loop closure of the batch is admitted
AdmitsLc(factors, accept) ==
  \E i \in 1..Len(factors) :
     factors[i].kind = "lc" /\ (~HasStrategy \/ i \in accept)

Count(h, factors, vals, isUpdate) ==
  [h EXCEPT !.nOps = @ + 1,
            !.submittedFactors = @ + Len(factors),
            !.submittedValues = @ + Cardinality(vals),
            !.onlyUpdates = @ /\ isUpdate]

\* optimize() was entered: what the backend hands back, when it does
Ran(h, nfg, values) ==
  IF solver_type_ \in {"LM", "GN"}
  THEN [h EXCEPT !.everOptimized = TRUE,
                 !.lastOut = BackendOptimize(nfg, values)]
  ELSE h

\* update() returned: one more logged call when logging is on
Returned(h, factors, accept) ==
  IF log_
  THEN [h EXCEPT !.loggedCalls = @ + 1, !.loggedEver = @ + 1,
                 !.lcEach = @ /\ AdmitsLc(factors, accept)]
  ELSE h

\* enableLogging() returned: the logged calls are counted afresh
Reopened(h) == [h EXCEPT !.loggedCalls = 0, !.lcEach = TRUE]

InitWith(methods) ==
  \E method \in methods, solver \in Solvers :
    LET c == Construct(method, solver)
    IN /\ params = [outlierRemovalMethod |-> method, solver |-> solver]
       /\ status = c.status
       /\ outlier_removal_ = c.outlier_removal_
       /\ solver_type_ = c.solver_type_
       /\ log_ = c.log_
       /\ log_path_ = ""
       /\ nfg_ = <<>>
       /\ values_ = <<>>
       /\ log_txt = <<Stale>>      \* left in the directory by an earlier run
       /\ error_txt = <<Stale>>
       /\ last = NoCall
       /\ hist = [nOps |-> 0, nUpdates |-> 0, lcAdmitted |-> FALSE,
                  submittedFactors |-> 0,
                  submittedValues |-> 0, onlyUpdates |-> TRUE,
                  everOptimized |-> FALSE, lastOut |-> <<>>,
                  loggedCalls |-> 0, loggedEver |-> 0, lcEach |-> TRUE]

\* one method per arm of the constructor's switch: no strategy, a Pcm
\* strategy, the default arm
SwitchArms == {"NONE", "PCM3D", "UNDEFINED"}
Init == InitWith(SwitchArms)
\* every method of the enumeration
InitAnyMethod == InitWith(OutlierRemovalMethods)

CanCall == status = "running"
CanUpdate == CanCall /\ hist.nUpdates < MaxUpdates
Counted(h, factors, accept) ==
  [h EXCEPT !.nUpdates = @ + 1,
            !.lcAdmitted = @ \/ AdmitsLc(factors, accept)]

\* faulty variant: the strategy test inverted
UpdateAdmissionInverted(factors, vals, accept, ret) ==
  IF ~HasStrategy
  THEN RemoveOutliers(outlier_removal_, factors, vals, nfg_, values_, accept, ret)
  ELSE AddAndCheckIfOptimize(factors, vals, nfg_, values_)

\* faulty variant: the admission path is handed a fresh graph and fresh
\* values, which then replace the solver's
UpdateAdmissionFresh(factors, vals, accept, ret) ==
  IF HasStrategy
  THEN RemoveOutliers(outlier_removal_, factors, vals, <<>>, <<>>, accept, ret)
  ELSE AddAndCheckIfOptimize(factors, vals, <<>>, <<>>)

\* update, lines 118-124: the admission path
UpdateAdmission(factors, vals, accept, ret) ==
  IF HasStrategy
  THEN RemoveOutliers(outlier_removal_, factors, vals, nfg_, values_, accept, ret)
  ELSE AddAndCheckIfOptimize(factors, vals, nfg_, values_)

\* faulty variant: optimize() whatever the admission path answered
UpdateOptimizesAlways(do_optimize) == TRUE

\* faulty variant: the answer of the admission path negated
UpdateOptimizesNegated(do_optimize) == ~do_optimize

\* update, line 126: if (do_optimize) optimize();
UpdateOptimizes(do_optimize) == do_optimize

\* faulty variant: the logging block is never entered
UpdateLogsNever(do_optimize) == FALSE

\* faulty variant: the logging block sits inside if (do_optimize)
UpdateLogsWhenOptimized(do_optimize) == log_ /\ do_optimize

\* update, line 127: if (log_), whatever do_optimize was on line 126
UpdateLogs(do_optimize) == log_

\* faulty variant: the error is taken before the optimize step
LoggedErrorBeforeOptimize(nfg, entering, leaving) == GraphError(nfg, entering)

\* update, line 129, after line 126: nfg_.error(values_) on the values that
\* optimize(), if it ran, has left
LoggedError(nfg, entering, leaving) == GraphError(nfg, leaving)

\* RobustSolver::update
Update(factors, vals, accept, ret) ==
  /\ CanUpdate
  /\ LET adm == UpdateAdmission(factors, vals, accept, ret)
         run == UpdateOptimizes(adm.ret)
         o   == IF run THEN Optimize(adm.nfg, adm.values)
                ELSE [values |-> adm.values, exited |-> FALSE]
         call == [NoCall EXCEPT !.op = "update", !.factors = factors,
                    !.vals = vals, !.accept = accept,
                    !.do_optimize = adm.ret,
                    !.optCalls = IF run THEN 1 ELSE 0]
         counted == Counted(Count(hist, factors, vals, TRUE), factors, accept)
         h == IF run THEN Ran(counted, adm.nfg, adm.values) ELSE counted
         error == LoggedError(adm.nfg, adm.values, o.values)
     IN /\ nfg_' = adm.nfg
        /\ values_' = o.values
        /\ outlier_removal_' = adm.strat
        /\ UNCHANGED <<params, solver_type_, log_, log_path_>>
        /\ IF o.exited THEN
             /\ status' = "exited"
             /\ last' = call
             /\ hist' = h
             /\ UNCHANGED <<log_txt, error_txt>>
           ELSE IF ~UpdateLogs(adm.ret) THEN
             /\ last' = call
             /\ hist' = Returned(h, factors, accept)
             /\ UNCHANGED <<status, log_txt, error_txt>>
           ELSE IF adm.strat.kind # "nullptr" THEN
             LET stats == GetRejectionStats(adm.strat)
             IN /\ log_txt' = Append(log_txt, StatsLine(stats, error))
                /\ error_txt' = Append(error_txt, ErrorLine(stats))
                /\ last' = [call EXCEPT !.logged = TRUE]
                /\ hist' = Returned(h, factors, accept)
                /\ UNCHANGED status
           ELSE \* outlier_removal_->getRejectionStats() through a null pointer
             \/ /\ status' = "crashed"
                /\ last' = [call EXCEPT !.derefNull = TRUE]
                /\ hist' = h
                /\ UNCHANGED <<log_txt, error_txt>>
             \/ \E stats \in GarbageStats :
                  /\ log_txt' = Append(log_txt, StatsLine(stats, error))
                  /\ error_txt' = Append(error_txt, ErrorLine(stats))
                  /\ last' = [call EXCEPT !.derefNull = TRUE, !.logged = TRUE]
                  /\ hist' = Returned(h, factors, accept)
                  /\ UNCHANGED status

\* forceUpdate, lines 107-111: the admission path
ForceUpdateAdmission(factors, vals, accept, ret) ==
  IF HasStrategy
  THEN RemoveOutliers(outlier_removal_, factors, vals, nfg_, values_, accept, ret)
  ELSE AddAndCheckIfOptimize(factors, vals, nfg_, values_)

\* faulty variant: forceUpdate follows the admission path's answer, as update does
ForceUpdateFollowsAnswer(do_optimize) == do_optimize

\* forceUpdate, line 113: optimize();
ForceUpdateOptimizes(do_optimize) == TRUE

\* RobustSolver::forceUpdate
ForceUpdate(factors, vals, accept, ret) ==
  /\ CanUpdate
  /\ LET adm == ForceUpdateAdmission(factors, vals, accept, ret)
         run == ForceUpdateOptimizes(adm.ret)
         o   == IF run THEN Optimize(adm.nfg, adm.values)
                ELSE [values |-> adm.values, exited |-> FALSE]
     IN /\ nfg_' = adm.nfg
        /\ values_' = o.values
        /\ outlier_removal_' = adm.strat
        /\ status' = IF o.exited THEN "exited" ELSE status
        /\ last' = [NoCall EXCEPT !.op = "forceUpdate", !.factors = factors,
                      !.vals = vals, !.accept = accept,
                      !.do_optimize = adm.ret,
                      !.optCalls = IF run THEN 1 ELSE 0]
        /\ hist' = LET counted == Counted(Count(hist, <<>>, {}, FALSE),
                                          factors, accept)
                   IN IF run THEN Ran(counted, adm.nfg, adm.values)
                      ELSE counted
        /\ UNCHANGED <<params, solver_type_, log_, log_path_, log_txt, error_txt>>

\* the tail every lifecycle call shares: optimize(); return
OptimizeAndReturn(nfg, strat, call) ==
  LET o == Optimize(nfg, values_)
  IN /\ nfg_' = nfg
     /\ outlier_removal_' = strat
     /\ values_' = o.values
     /\ status' = IF o.exited THEN "exited" ELSE status
     /\ last' = [call EXCEPT !.optCalls = 1]
     /\ hist' = Ran(Count(hist, <<>>, {}, FALSE), nfg, values_)
     /\ UNCHANGED <<params, solver_type_, log_, log_path_, log_txt, error_txt>>

\* faulty variant: without a strategy the last factor goes only if it is a
\* loop closure of the stream asked for
RemoveLastScopedFiltered(prefix_1, prefix_2) ==
  LET id == ObservationId(prefix_1, prefix_2)
  IN IF HasStrategy
     THEN StrategyRemoveLast(outlier_removal_, nfg_, {id})
     ELSE IF Len(nfg_) > 0 /\ nfg_[Len(nfg_)].kind = "lc"
             /\ Scope(nfg_[Len(nfg_)]) = id
          THEN [strat |-> outlier_removal_] @@ RemoveLastFactor(nfg_)
          ELSE [strat |-> outlier_removal_, nfg |-> nfg_, removed |-> <<>>]

\* removeLastLoopClosure(char, char), lines 151-158
RemoveLastScoped(prefix_1, prefix_2) ==
  LET id == ObservationId(prefix_1, prefix_2)
  IN IF HasStrategy
     THEN StrategyRemoveLast(outlier_removal_, nfg_, {id})
     ELSE [strat |-> outlier_removal_] @@ RemoveLastFactor(nfg_)

\* RobustSolver::removeLastLoopClosure(char prefix_1, char prefix_2)
RemoveLastLoopClosureOf(prefix_1, prefix_2) ==
  /\ CanCall
  /\ LET r == RemoveLastScoped(prefix_1, prefix_2)
     IN OptimizeAndReturn(r.nfg, r.strat,
          [NoCall EXCEPT !.op = "removeLastLoopClosure",
                         !.prefixes = <<prefix_1, prefix_2>>,
                         !.removed = r.removed])

\* faulty variant: the removed edge is not handed to the caller
RemoveLastGlobalDropsEdge ==
  LET r == IF HasStrategy
           THEN StrategyRemoveLast(outlier_removal_, nfg_, Streams)
           ELSE [strat |-> outlier_removal_] @@ RemoveLastFactor(nfg_)
  IN [r EXCEPT !.removed = <<>>]

\* removeLastLoopClosure(), lines 165-171
RemoveLastGlobal ==
  IF HasStrategy
  THEN StrategyRemoveLast(outlier_removal_, nfg_, Streams)
  ELSE [strat |-> outlier_removal_] @@ RemoveLastFactor(nfg_)

\* RobustSolver::removeLastLoopClosure()
RemoveLastLoopClosure ==
  /\ CanCall
  /\ LET r == RemoveLastGlobal
     IN OptimizeAndReturn(r.nfg, r.strat,
          [NoCall EXCEPT !.op = "removeLastLoopClosure",
                         !.removed = r.removed])

\* faulty variant: no warning without a strategy
IgnoreStepSilent(prefix) ==
  IF HasStrategy
  THEN [warned |-> FALSE] @@ IgnoreLoopClosureWithPrefix(outlier_removal_, nfg_, prefix)
  ELSE [warned |-> FALSE, strat |-> outlier_removal_, nfg |-> nfg_]

\* ignorePrefix, lines 178-184
IgnoreStep(prefix) ==
  IF HasStrategy
  THEN [warned |-> FALSE] @@ IgnoreLoopClosureWithPrefix(outlier_removal_, nfg_, prefix)
  ELSE [warned |-> TRUE, strat |-> outlier_removal_, nfg |-> nfg_]

\* RobustSolver::ignorePrefix
IgnorePrefix(prefix) ==
  /\ CanCall
  /\ LET r == IgnoreStep(prefix)
     IN OptimizeAndReturn(r.nfg, r.strat,
          [NoCall EXCEPT !.op = "ignorePrefix", !.prefixes = <<prefix>>,
                         !.warned = r.warned, !.before = Snapshot])

\* faulty variant: revivePrefix calls the strategy's ignore (copied from ignorePrefix)
ReviveStepIgnores(prefix) ==
  IF HasStrategy
  THEN [warned |-> FALSE] @@ IgnoreLoopClosureWithPrefix(outlier_removal_, nfg_, prefix)
  ELSE [warned |-> TRUE, strat |-> outlier_removal_, nfg |-> nfg_]

\* revivePrefix, lines 191-197
ReviveStep(prefix) ==
  IF HasStrategy
  THEN [warned |-> FALSE] @@ ReviveLoopClosureWithPrefix(outlier_removal_, nfg_, prefix)
  ELSE [warned |-> TRUE, strat |-> outlier_removal_, nfg |-> nfg_]

\* RobustSolver::revivePrefix
RevivePrefix(prefix) ==
  /\ CanCall
  /\ LET r == ReviveStep(prefix)
     IN OptimizeAndReturn(r.nfg, r.strat,
          [NoCall EXCEPT !.op = "revivePrefix", !.prefixes = <<prefix>>,
                         !.warned = r.warned,
                         \* straight after ignorePrefix(prefix): remember
                         \* the state that call started from
                         !.roundTrip = (last.op = "ignorePrefix"
                                        /\ last.prefixes = <<prefix>>),
                         !.before = IF last.op = "ignorePrefix"
                                       /\ last.prefixes = <<prefix>>
                                    THEN last.before ELSE Snapshot])

\* getIgnoredPrefixes, lines 204-212: the value returned and the warning
IgnoredPrefixesResult ==
  IF HasStrategy
  THEN [ret |-> outlier_removal_.ignored, warned |-> FALSE]
  ELSE [ret |-> {}, warned |-> TRUE]

\* RobustSolver::getIgnoredPrefixes
GetIgnoredPrefixes ==
  /\ CanCall
  /\ LET r == IgnoredPrefixesResult
     IN last' = [NoCall EXCEPT !.op = "getIgnoredPrefixes", !.ret = r.ret,
                               !.warned = r.warned]
  /\ hist' = Count(hist, <<>>, {}, FALSE)
  /\ UNCHANGED <<params, status, outlier_removal_, solver_type_, log_, log_path_,
                 nfg_, values_, log_txt, error_txt>>

\* faulty variant: the strategy is asked without the test
SaveAsksAlways == TRUE

\* saveData, line 218: if (outlier_removal_) outlier_removal_->saveData(..)
SaveAsksStrategy == HasStrategy

\* RobustSolver::saveData
SaveData ==
  /\ CanCall
  /\ last' = [NoCall EXCEPT !.op = "saveData", !.wroteG2o = TRUE,
                            !.strategySaved = SaveAsksStrategy]
  /\ hist' = Count(hist, <<>>, {}, FALSE)
  /\ UNCHANGED <<params, status, outlier_removal_, solver_type_, log_, log_path_,
                 nfg_, values_, log_txt, error_txt>>

\* faulty variant: the files are opened for appending
EnableLoggingAppends(path) ==
  /\ CanCall
  /\ log_' = TRUE
  /\ log_path_' = path
  /\ log_txt' = Append(log_txt, Header)
  /\ error_txt' = Append(error_txt, Header)
  /\ last' = [NoCall EXCEPT !.op = "enableLogging"]
  /\ hist' = Reopened(Count(hist, <<>>, {}, FALSE))
  /\ UNCHANGED <<params, status, outlier_removal_, solver_type_, nfg_, values_>>

\* RobustSolver::enableLogging
EnableLogging(path) ==
  /\ CanCall
  /\ log_' = TRUE
  /\ log_path_' = path
  /\ log_txt' = <<Header>>
  /\ error_txt' = <<Header>>
  /\ last' = [NoCall EXCEPT !.op = "enableLogging"]
  /\ hist' = Reopened(Count(hist, <<>>, {}, FALSE))
  /\ UNCHANGED <<params, status, outlier_removal_, solver_type_, nfg_, values_>>

\* -------------------------------------------------------- the callers
RobotRank(r) == IF r = "a" THEN 0 ELSE 1
KeyRank(k) == RobotRank(k[1]) * (MaxIdx + 1) + k[2]
Known == Keys(values_) \cap PoseKeys
\* the poses the robots are at: a measurement is taken from one of them
Latest == {k \in Known : <<k[1], k[2] + 1>> \notin Known}

\* The batches a caller hands over: nothing; a robot's first pose with its
\* prior, alone or with the first odometry edge; the next odometry edge of a
\* robot with its one new pose; a loop closure between a robot's current
\* pose and another known pose; a landmark measurement from a current pose.
\* New values are exactly the variables the batch introduces.
Batches ==
  {[factors |-> <<>>, vals |-> {}]}
  \cup {[factors |-> <<Prior(<<r, 0>>)>>, vals |-> {<<r, 0>>}] :
          r \in {q \in Robots : <<q, 0>> \notin Known}}
  \cup {[factors |-> <<Prior(<<r, 0>>), Odom(<<r, 0>>, <<r, 1>>)>>,
         vals |-> {<<r, 0>>, <<r, 1>>}] :
          r \in {q \in Robots : <<q, 0>> \notin Known /\ MaxIdx >= 1}}
  \cup {[factors |-> <<Odom(k, <<k[1], k[2] + 1>>)>>,
         vals |-> {<<k[1], k[2] + 1>>}] :
          k \in {x \in Known : /\ x[2] < MaxIdx
                               /\ <<x[1], x[2] + 1>> \notin Known}}
  \cup {[factors |-> <<LoopClosure(p[1], p[2])>>, vals |-> {}] :
          p \in {q \in Known \X Known : /\ KeyRank(q[1]) < KeyRank(q[2])
                                         /\ {q[1], q[2]} \cap Latest # {}}}
  \cup {[factors |-> <<LandmarkFactor(k)>>,
         vals |-> {Landmark} \ Keys(values_)] : k \in Latest}

Candidates(b) == {i \in 1..Len(b.factors) : IsCandidate(b.factors[i])}
Accepts(b) == IF HasStrategy THEN SUBSET Candidates(b) ELSE {{}}
Answers == IF HasStrategy THEN BOOLEAN ELSE {FALSE}

\* the public member functions, while fewer than n calls were made
Calls(n) ==
  \/ /\ hist.nOps < n
     /\ \E b \in Batches : \E accept \in Accepts(b), ret \in Answers :
          Update(b.factors, b.vals, accept, ret)
  \/ /\ hist.nOps < n
     /\ \E b \in Batches : \E accept \in Accepts(b), ret \in Answers :
          ForceUpdate(b.factors, b.vals, accept, ret)
  \/ /\ hist.nOps < n
     /\ \E p1 \in Robots, p2 \in Robots : RemoveLastLoopClosureOf(p1, p2)
  \/ hist.nOps < n /\ RemoveLastLoopClosure
  \/ hist.nOps < n /\ \E p \in Robots : IgnorePrefix(p)
  \/ hist.nOps < n /\ \E p \in Robots : RevivePrefix(p)
  \/ hist.nOps < n /\ GetIgnoredPrefixes
  \/ hist.nOps < n /\ SaveData
  \/ hist.nOps < n /\ EnableLogging("p")

Next == Calls(MaxOps)
Spec == Init /\ [][Next]_vars

\* the solver built with any method of the enumeration, and its first calls
NextFirstCalls == Calls(MaxFirstCalls)
SpecAnyMethod == InitAnyMethod /\ [][NextFirstCalls]_vars

\* ====================================================================
\* Properties
\* ====================================================================
Optimized(nfg, values) ==
  \A k \in Keys(values) : values[k].opt /\ values[k].fit = Range(nfg)
NonOdometry(factors) == \E i \in 1..Len(factors) : factors[i].kind # "odom"

\* C1: with logging enabled and no strategy (mode None), an update() call
\* completes without reading the absent strategy's rejection statistics:
\* nothing is appended to the log files and no null strategy is dereferenced.
C1_NoNullStrategyRead ==
  (last.op = "update" /\ log_ /\ ~HasStrategy)
    => (~last.derefNull /\ ~last.logged /\ status # "crashed")

\* C2: every update() invokes the optimizer exactly once when its admission
\* path answered true and not at all when it answered false, and when
\* update() returns after an invocation the value assignment is the
\* optimizer's result for the graph as it then stands.
C2_OptimizeOncePerUpdate ==
  [][last'.op = "update" =>
       /\ last'.optCalls = (IF last'.do_optimize THEN 1 ELSE 0)
       /\ (last'.do_optimize /\ status' # "exited")
            => Optimized(nfg_', values_')
       /\ ~last'.do_optimize
            => \A k \in Keys(values_) : values_'[k] = values_[k]]_vars

C2_Witness ==
  /\ last.op = "update" /\ last.do_optimize /\ last.optCalls = 1
  /\ status = "running" /\ Keys(values_) # {} /\ Optimized(nfg_, values_)

\* C3: forceUpdate() admits exactly the factors and values update() would
\* admit on the same state and batch, and then invokes the optimizer exactly
\* once, also when the admission path answered "do not optimize".
C3_ForceUpdateAdmitsAsUpdate ==
  [][last'.op = "forceUpdate" =>
       LET u == UpdateAdmission(last'.factors, last'.vals, last'.accept,
                                last'.do_optimize)
       IN /\ nfg_' = u.nfg
          /\ Keys(values_') = Keys(u.values)
          /\ outlier_removal_' = u.strat
          /\ last'.do_optimize = u.ret
          /\ last'.optCalls = 1]_vars

C3_Witness ==
  /\ last.op = "forceUpdate" /\ ~last.do_optimize /\ last.optCalls = 1
  /\ Len(last.factors) > 0 /\ status = "running"
  /\ Optimized(nfg_, values_)

C5_NoStrategyAccounting ==
  (~HasStrategy /\ hist.onlyUpdates) =>
    /\ Len(nfg_) = hist.submittedFactors
    /\ Cardinality(Keys(values_)) = hist.submittedValues

C5_Witness ==
  /\ ~HasStrategy /\ hist.onlyUpdates /\ hist.nOps = 3
  /\ hist.submittedFactors = 4 /\ Len(nfg_) = 4
  /\ hist.submittedValues = 3 /\ Cardinality(Keys(values_)) = 3
  /\ \E i \in 1..Len(nfg_) : nfg_[i].kind = "lc"

\* C6: after every update() the variables of the value assignment are
\* exactly the variables the factors of the graph refer to.
C6_ValuesMatchFactorVariables ==
  last.op = "update" => Keys(values_) = GraphKeys(nfg_)

\* the loop closure an update() just put into the graph, if any
AdmittedLc(call) ==
  {call.factors[i] : i \in
     {j \in 1..Len(call.factors) :
        /\ call.factors[j].kind = "lc"
        /\ (~HasStrategy \/
              (j \in call.accept
               /\ Enabled(call.factors[j], outlier_removal_.ignored)))}}

\* C7: removeLastLoopClosure() right after an update() that admitted a loop
\* closure removes that factor and no other and returns it; when no loop
\* closure was ever admitted it leaves the factors alone and returns nothing.
C7_RemoveLastLoopClosureExact ==
  [][last'.op = "removeLastLoopClosure" =>
       /\ (last.op = "update" /\ last'.prefixes = <<>>)
            => \A f \in AdmittedLc(last) :
                 /\ last'.removed = <<f>>
                 /\ Len(nfg_') = Len(nfg_) - 1
                 /\ \E i \in 1..Len(nfg_) :
                      nfg_[i] = f /\ nfg_' = RemoveAt(nfg_, i)
       /\ ~hist.lcAdmitted
            => (nfg_' = nfg_ /\ last'.removed = <<>>)]_vars

\* C8: both overloads of removeLastLoopClosure keep the set of variables of
\* the value assignment, invoke the optimizer exactly once whether or not a
\* factor was removed, and return the factor they detached, or nothing.
C8_RemoveKeepsVariablesOptimizesOnce ==
  [][last'.op = "removeLastLoopClosure" =>
       /\ Keys(values_') = Keys(values_)
       /\ last'.optCalls = 1
       /\ Len(last'.removed) <= 1
       /\ IF Len(nfg_') = Len(nfg_) THEN nfg_' = nfg_
          ELSE \E i \in 1..Len(nfg_) :
                 nfg_' = RemoveAt(nfg_, i) /\ last'.removed = <<nfg_[i]>>
       /\ status' # "exited" => Optimized(nfg_', values_')]_vars

C8_Witness ==
  /\ last.op = "removeLastLoopClosure" /\ last.prefixes = <<>>
  /\ HasStrategy /\ Len(last.removed) = 1 /\ last.optCalls = 1
  /\ Keys(values_) # {} /\ status = "running"

\* C9: without a strategy, ignorePrefix and revivePrefix leave the factors
\* alone, emit a diagnostic and invoke the optimizer exactly once;
\* getIgnoredPrefixes emits the diagnostic, returns nothing, changes no state
\* and does not invoke the optimizer.
C9_NoStrategyPrefixCalls ==
  [][~HasStrategy =>
       /\ last'.op \in {"ignorePrefix", "revivePrefix"}
            => (nfg_' = nfg_ /\ last'.warned /\ last'.optCalls = 1)
       /\ last'.op = "getIgnoredPrefixes"
            => /\ last'.warned /\ last'.ret = {} /\ last'.optCalls = 0
               /\ UNCHANGED <<params, status, outlier_removal_, solver_type_, log_,
                              log_path_, nfg_, values_, log_txt, error_txt>>]_vars

C9_Witness ==
  /\ ~HasStrategy /\ last.op = "ignorePrefix" /\ last.warned
  /\ last.optCalls = 1 /\ Len(nfg_) > 0 /\ status = "running"

SameGraphState(before) ==
  /\ Range(nfg_) = Range(before.nfg)
  /\ Len(nfg_) = Len(before.nfg)
  /\ outlier_removal_.ignored = before.ignored
  /\ values_ = before.values

\* C10 (as stated): ignorePrefix(p) straight followed by revivePrefix(p)
\* restores the enabled factors, the ignored prefixes and the value
\* assignment of the state before ignorePrefix(p), from every state.
C10_RoundTripFromAnyState ==
  (last.op = "revivePrefix" /\ last.roundTrip /\ status = "running")
    => SameGraphState(last.before)

\* C10 (amended): the same, from every state in which p is not already
\* ignored and the value assignment is the optimizer's result for the graph.
C10_RoundTripFromOptimizedState ==
  ( /\ last.op = "revivePrefix" /\ last.roundTrip /\ status = "running"
    /\ last.prefixes[1] \notin last.before.ignored
    /\ Optimized(last.before.nfg, last.before.values) )
    => SameGraphState(last.before)

C10_Witness ==
  /\ last.op = "revivePrefix" /\ last.roundTrip /\ status = "running"
  /\ last.prefixes[1] \notin last.before.ignored
  /\ Optimized(last.before.nfg, last.before.values)
  /\ \E i \in 1..Len(nfg_) :
       nfg_[i].kind = "lc" /\ last.prefixes[1] \in Scope(nfg_[i])

\* the lines after the first one
DataLines(file) == SubSeq(file, 2, Len(file))
AllData(file) == \A i \in 2..Len(file) : file[i].kind = "data"

\* C11: after enableLogging() on a solver with a strategy, K update() calls
\* that each admitted at least one loop closure leave exactly K data lines
\* after the header in log.txt and in error.txt, and a forceUpdate,
\* removeLastLoopClosure, ignorePrefix, revivePrefix or saveData call adds
\* no line to either file.
C11_OneLinePerLoggedUpdate ==
  [][/\ (HasStrategy /\ log_' /\ hist'.lcEach) =>
          /\ Head(log_txt') = Header /\ Head(error_txt') = Header
          /\ AllData(log_txt') /\ AllData(error_txt')
          /\ Len(DataLines(log_txt')) = hist'.loggedCalls
          /\ Len(DataLines(error_txt')) = hist'.loggedCalls
     /\ (HasStrategy /\ log_ /\
           last'.op \in {"forceUpdate", "removeLastLoopClosure",
                         "ignorePrefix", "revivePrefix", "saveData"}) =>
          (log_txt' = log_txt /\ error_txt' = error_txt)]_vars

C11_Witness ==
  /\ HasStrategy /\ log_ /\ hist.lcEach /\ status = "running"
  /\ hist.loggedCalls = 2 /\ Len(log_txt) = 3 /\ Len(error_txt) = 3
  /\ last.op = "update" /\ AdmittedLc(last) # {}

\* C12: in every reachable state the value assignment is exactly the output
\* of the most recent optimize() invocation, or the initial seed if
\* optimize() has never been invoked, also after an update() whose
\* admission path added values without requesting re-optimization.
C12_ValuesAreLatestOutput ==
  IF hist.everOptimized THEN values_ = hist.lastOut
  ELSE \A k \in Keys(values_) : values_[k] = Seed

\* C12 as the code has it: the value assignment is the output of the most
\* recent optimize() invocation on the variables that output covers, and
\* the initial value on every variable added since by update() calls that
\* did not re-optimize (on all of them if optimize() has never returned).
C12_ValuesExtendLatestOutput ==
  /\ hist.everOptimized => Keys(hist.lastOut) \subseteq Keys(values_)
  /\ \A k \in Keys(values_) :
       values_[k] = IF hist.everOptimized /\ k \in Keys(hist.lastOut)
                    THEN hist.lastOut[k] ELSE Seed

C12_Witness ==
  /\ last.op = "update" /\ ~last.do_optimize /\ last.vals # {}
  /\ hist.everOptimized /\ Keys(hist.lastOut) # {}
  /\ Keys(values_) \ Keys(hist.lastOut) # {}

\* C13: every update() call, with or without a strategy, leaves at least
\* as many factors and at least as many variables as it found: an update
\* never removes a factor or a variable.
C13_UpdateNeverShrinks ==
  [][last'.op = "update" =>
       /\ Len(nfg_') >= Len(nfg_)
       /\ Cardinality(Keys(values_')) >= Cardinality(Keys(values_))
       /\ SubSeq(nfg_', 1, Len(nfg_)) = nfg_
       /\ Keys(values_) \subseteq Keys(values_')]_vars

\* an update that rejected its loop closure, on a graph that holds factors
C13_Witness ==
  /\ last.op = "update" /\ HasStrategy /\ status = "running"
  /\ Len(last.factors) = 1 /\ last.factors[1].kind = "lc" /\ last.accept = {}
  /\ Len(nfg_) >= 2 /\ Cardinality(Keys(values_)) >= 2

PcmMethods == {"PCM2D", "PCM3D", "PCM_Simple2D", "PCM_Simple3D"}

\* C14: construction with a recognized outlier-removal mode yields a
\* running solver that holds a strategy exactly when the mode is not None,
\* and that presence never changes in any state reachable afterwards;
\* construction with an unrecognized mode ends the process, so that no
\* operation ever executes on a solver whose strategy is undefined.
C14_StrategyIffModeNotNone ==
  /\ params.outlierRemovalMethod \in OutlierRemovalMethods
  /\ params.outlierRemovalMethod \in PcmMethods => HasStrategy
  /\ params.outlierRemovalMethod = "NONE" => ~HasStrategy
  /\ (hist.nOps = 0 /\ params.outlierRemovalMethod # "UNDEFINED")
       => status = "running"
  /\ params.outlierRemovalMethod = "UNDEFINED"
       => /\ status = "exited" /\ hist.nOps = 0 /\ last = NoCall
          /\ nfg_ = <<>> /\ values_ = <<>> /\ ~log_

C14_Witness ==
  /\ params.outlierRemovalMethod = "PCM_Simple2D" /\ HasStrategy
  /\ hist.nOps = 2 /\ last.op = "update" /\ AdmittedLc(last) # {}

C16_OptimizeBySolverMode ==
  [][/\ solver_type_' = solver_type_
     /\ (hist.nOps = 0 /\ params.outlierRemovalMethod # "UNDEFINED")
          => status = "running"
     /\ (last'.optCalls = 1 /\ solver_type_ \in {"GN", "LM"}) =>
          /\ status' # "exited"
          /\ Optimized(nfg_', values_')
          /\ values_' = hist'.lastOut
          /\ last'.op = "update" =>
               nfg_' = UpdateAdmission(last'.factors, last'.vals,
                                       last'.accept, last'.do_optimize).nfg
          /\ last'.op = "forceUpdate" =>
               nfg_' = ForceUpdateAdmission(last'.factors, last'.vals,
                                            last'.accept, last'.do_optimize).nfg
     /\ (last'.optCalls = 1 /\ solver_type_ \notin {"GN", "LM"}) =>
          status' = "exited"
     /\ (last'.op = "update" /\ last'.optCalls = 0) => status' # "exited"]_vars

\* an unsupported solver mode: an update() that asked for no optimization
\* completed, the next optimizing call ended the process
C16_Witness ==
  /\ solver_type_ \notin {"GN", "LM"} /\ status = "exited"
  /\ hist.nOps = 2 /\ hist.nUpdates = 1 /\ last.op = "ignorePrefix"
  /\ last.optCalls = 1 /\ Keys(values_) # {}

\* C17: with no strategy configured, removeLastLoopClosure(p1, p2) and
\* removeLastLoopClosure() have the same effect for all prefix arguments:
\* each removes the single most recently appended factor, whatever its
\* provenance and whatever observation stream it belongs to, and returns it.
C17_NoStrategyOverloadsAgree ==
  [][~HasStrategy =>
       /\ \A p1 \in Robots, p2 \in Robots :
            RemoveLastScoped(p1, p2) = RemoveLastGlobal
       /\ (last'.op = "removeLastLoopClosure" /\ Len(nfg_) > 0) =>
            /\ nfg_' = SubSeq(nfg_, 1, Len(nfg_) - 1)
            /\ last'.removed = <<nfg_[Len(nfg_)]>>
            /\ outlier_removal_' = outlier_removal_]_vars

\* the scoped overload, asked for robot a's own stream, took away a factor
\* of robot b that is no loop closure
C17_Witness ==
  /\ ~HasStrategy /\ last.op = "removeLastLoopClosure"
  /\ last.prefixes = <<"a", "a">> /\ Len(last.removed) = 1
  /\ last.removed[1].kind # "lc" /\ last.removed[1].k1[1] = "b"

\* C18: with logging enabled and a strategy configured, every update() call
\* that returns appends exactly one line to log.txt and one to error.txt,
\* also when re-optimization was skipped; the line is written after the
\* optimize step, so its error field is the total error of the graph
\* against the value assignment as it stands when update() returns; the
\* lines already in the files are never modified.
C18_UpdateAppendsOneLine ==
  [][(HasStrategy /\ log_ /\ last'.op # "enableLogging") =>
       /\ SubSeq(log_txt', 1, Len(log_txt)) = log_txt
       /\ SubSeq(error_txt', 1, Len(error_txt)) = error_txt
       /\ (last'.op = "update" /\ status' # "exited") =>
            /\ Len(log_txt') = Len(log_txt) + 1
            /\ Len(error_txt') = Len(error_txt) + 1
            /\ LET line == log_txt'[Len(log_txt')]
                   errs == error_txt'[Len(error_txt')]
                   stats == GetRejectionStats(outlier_removal_')
               IN /\ line.kind = "data" /\ errs.kind = "data"
                  /\ line.lc = stats.lc /\ line.good_lc = stats.good_lc
                  /\ errs.consistency_error = stats.consistency_error
                  /\ line.error = GraphError(nfg_', values_')
                  /\ last'.do_optimize =>
                       line.error = GraphError(nfg_', hist'.lastOut)]_vars

\* a logged update that re-optimized a graph it had added a factor and a
\* value to
C18_Witness ==
  /\ HasStrategy /\ log_ /\ status = "running"
  /\ last.op = "update" /\ last.do_optimize /\ last.logged
  /\ last.vals # {} /\ Len(log_txt) = 3
  /\ log_txt[3].error = 0 /\ Optimized(nfg_, values_)

\* C19: with logging enabled and a strategy configured, an update() call in
\* which re-optimization was skipped (the strategy answered "do not
\* optimize") appends no line to log.txt or error.txt.
C19_SkippedUpdateAppendsNothing ==
  [][(HasStrategy /\ log_ /\ last'.op = "update" /\ ~last'.do_optimize) =>
       (log_txt' = log_txt /\ error_txt' = error_txt)]_vars

\* C19 as the code has it: with logging enabled and a strategy configured,
\* an update() call in which re-optimization was skipped runs no optimize()
\* and still appends exactly one line to log.txt and one to error.txt, the
\* error being that of the graph against the values left un-optimized.
C19_SkippedUpdateAppendsOneLine ==
  [][(HasStrategy /\ log_ /\ last'.op = "update" /\ ~last'.do_optimize) =>
       /\ last'.optCalls = 0 /\ last'.logged /\ status' = status
       /\ log_txt' =
            Append(log_txt, StatsLine(GetRejectionStats(outlier_removal_'),
                                      GraphError(nfg_', values_')))
       /\ error_txt' =
            Append(error_txt, ErrorLine(GetRejectionStats(outlier_removal_')))]_vars

\* a logged update that added a pose without re-optimizing: the line holds
\* the error of the factors not yet fitted
C19_Witness ==
  /\ HasStrategy /\ log_ /\ status = "running"
  /\ last.op = "update" /\ ~last.do_optimize /\ last.optCalls = 0
  /\ last.vals # {} /\ last.logged
  /\ Len(log_txt) >= 2 /\ log_txt[Len(log_txt)].error > 0

\* C20: the graph state is created empty at construction and changes only
\* inside update, forceUpdate, removeLastLoopClosure, ignorePrefix and
\* revivePrefix: getIgnoredPrefixes(), saveData() and enableLogging() leave
\* the factors, the value assignment and the strategy as they were and
\* never invoke the optimizer, and saveData() asks the strategy to persist
\* its data exactly when a strategy is configured.
C20_QueriesLeaveGraphAlone ==
  [][/\ hist.nOps = 0 => (nfg_ = <<>> /\ values_ = <<>>)
     /\ last'.op \in {"getIgnoredPrefixes", "saveData", "enableLogging"} =>
          /\ nfg_' = nfg_ /\ values_' = values_
          /\ outlier_removal_' = outlier_removal_
          /\ status' = status
          /\ last'.optCalls = 0 /\ hist'.lastOut = hist.lastOut
     /\ last'.op = "saveData" =>
          (last'.wroteG2o /\ (last'.strategySaved <=> HasStrategy))
     /\ (nfg_' # nfg_ \/ values_' # values_) =>
          last'.op \in {"update", "forceUpdate", "removeLastLoopClosure",
                        "ignorePrefix", "revivePrefix"}]_vars

\* saveData() on a solver with a strategy and a graph that holds factors
C20_Witness ==
  /\ last.op = "saveData" /\ HasStrategy /\ last.strategySaved
  /\ last.wroteG2o /\ Len(nfg_) >= 2 /\ hist.everOptimized

====
